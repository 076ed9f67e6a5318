CONSTANT N = 4
SPECIFICATION FairSpec
 
PROPERTIES InterruptUnwinds Terminates
CHECK_DEADLOCK FALSE
