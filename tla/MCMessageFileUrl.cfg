CONSTANTS
    MaxUrlLen <- MCMaxUrlLen
    MaxExtLen <- MCMaxExtLen
    None = None
SPECIFICATION Spec
INVARIANT SignedUrlNamesTheFile
