SPECIFICATION WebSpec
CONSTANTS
    Persons <- MCPersons
    Menu = {"report_user", "timeout", "mute", "ban"}
    Slots = {1, 2}
    MaxChanges = 1
    NoDialog = NoDialog
    NoCall = NoCall
    Terms = {NoTerm, ann}
    NoTerm = NoTerm
    Channels = {c1, c2}
    MaxVersion = 1
    MaxLookups = 2
    NoResults = NoResults
INVARIANTS DialogInv OfferedIsPermitted ResultsMatchTerm
PROPERTIES SubmitEnds SearchFollows
