SPECIFICATION Spec
CONSTANTS
  Kind = {"file", "dir", "symlink", "special"}
  Mode = {420, 90}
  Id = {1, 2}
  Size = {0, 1, 2}
  MaxTime = 2
  ToSet <- Requests
VIEW StateView
PROPERTY
  ChangesAreStamped
