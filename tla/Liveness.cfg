SPECIFICATION Spec
CHECK_DEADLOCK FALSE
PROPERTIES AcknowledgedIsSettled RemindersHold RemindersSettle
