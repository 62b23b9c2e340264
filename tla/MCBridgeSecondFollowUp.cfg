\* A voice conversation without failures: can it ask twice?
CONSTANTS
    Media = {"VOICE"}
    Faults = {}
SPECIFICATION Spec
INVARIANTS
    FollowUpMayRepeat
