CONSTANTS
 Texts <- AllTexts
 Squeeze <- Squeezed
 Freed = Freed
 NULL = NULL
 MAXHUNKSIZE = 14
 Files = {"f"}
 Length <- NameLength
 Jobs <- SameVersionJobs
 MaxEdits = 2
SPECIFICATION Spec
INVARIANT SameVersionIsCorrect
