SPECIFICATION Spec
CONSTANTS
    Images = {i1, i2, i3, i4}
    MaxItems = 2
    MaxEntries = 8
    MaxCrashes = 2
    None = None
SYMMETRY SymImages
INVARIANTS TypeOK CatalogComplete
  
