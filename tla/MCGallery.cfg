SPECIFICATION Spec
CONSTANTS
    Listings = {l1}
    Ids = {x1, x2, x3}
    Slots = {s1, s2}
    MaxSort = 1
    None = None
SYMMETRY Alike
INVARIANTS GalleryTypeOK PictureOnDisk LeftOnlyByFailure
CHECK_DEADLOCK FALSE
