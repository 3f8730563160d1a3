CONSTANT Destinations = {d1, d2}
SPECIFICATION Spec
INVARIANT ArchivesWhole
