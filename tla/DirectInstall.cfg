\* Three releases of a program on Windows, with and without a published digest, and on macOS.
CONSTANTS
    Apps <- MCApps
    MaxVersion = 3
    MaxCrashes = 1
SPECIFICATION Spec
INVARIANTS
    RunsWhatWasChecked
    KeepsACopy
    SwapAnswersTrue
PROPERTIES
    NotOfferedAgain
    Ends
