SPECIFICATION Spec
CONSTANTS
  Size = 4
  Byte = {0, 1}
  Zero = 0
  MaxLength = 5
PROPERTY ForceKeepsNewest
