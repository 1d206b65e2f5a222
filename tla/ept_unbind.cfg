SPECIFICATION Spec
CONSTANTS
  Epts = {e1, e2}
  Releasable = {}
  Names = {tty}
  Remotes = {0, 1}
  Sources <- AnySource
  Apps = {a1}
  Rx = Rx
  BMP_SIZE = 2
  RESERVED = 2
  support_ns = TRUE
PROPERTY UnboundOnDestroy
