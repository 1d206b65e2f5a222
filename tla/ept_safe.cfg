SPECIFICATION FairSpec
CONSTANTS
  Epts = {e1, e2}
  Releasable = {e1}
  Names = {tty}
  Remotes = {0, 1}
  Sources <- SomeSources
  Apps = {a1}
  Rx = Rx
  BMP_SIZE = 2
  RESERVED = 2
  support_ns = TRUE
INVARIANTS RefcntExact NoUseAfterRelease BitmapExact
PROPERTY DestroyedIsReleased
