\* Liveness, with what can delay a hart: a halt group, commands, resumes.
CONSTANTS
    Harts = {0, 1}
    AbstractRti = 1
    Groups = {0, 1}
    Availability = {{0, 1}}
    Kinds = {"exec"}
    MaxResets = 0
SPECIFICATION Spec
PROPERTIES
    HaltHonoured
    CommandEnds
    ResumeHonoured
