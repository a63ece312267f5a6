SPECIFICATION Spec
INVARIANTS LoginOnlyWhenRefused  RequestsStayInBounds 
CHECK_DEADLOCK FALSE
