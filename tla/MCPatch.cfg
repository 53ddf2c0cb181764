CONSTANTS
 Texts <- AllTexts
 Squeeze <- Squeezed
 Freed = Freed
 NULL = NULL
 MAXHUNKSIZE = 14
 Files = {"f", "gg"}
 Length <- NameLength
 Jobs <- AllJobs
 MaxEdits = 3
SPECIFICATION FairSpec
INVARIANTS FilesAreAsPatched OutputIsSpliced DefinesKeepBoth RejectsAreAsRead FilesRemain
PROPERTIES TextsAreBackedUp PatchEnds
