SPECIFICATION Spec
CONSTANTS
    MaxPhotos = 2
    None = None
PROPERTY SellerReachesDetails
