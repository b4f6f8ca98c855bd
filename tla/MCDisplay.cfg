CONSTANT None = None
SPECIFICATION Spec
 
PROPERTY FramesFlow
CHECK_DEADLOCK FALSE
