CONSTANTS
    Unknown = "unknown"
    MaxHistory = 3
SPECIFICATION RouterSpec
INVARIANTS NoTrap LinksLead
PROPERTY Settles
