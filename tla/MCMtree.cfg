CONSTANTS
    Cases <- MCCases
    Bad = Bad
    Up = Up
    Xattrs = {"xattr.cap", "xattr.acl"}
SPECIFICATION Spec
INVARIANTS SpecRebuilds 
PROPERTY AmendsOnlyNamed
