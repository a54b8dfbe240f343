SPECIFICATION Spec
CONSTANTS
    Changes <- Contents
    Tracking <- Sometimes
    None = None
    NotTracked = NotTracked
    MaxVersion = 3
INVARIANTS
    ConfigFaithfulUnlessBehind
    CrcFaithful
    AnswersAreOfTheVersion
CONSTRAINT FewFiles
CHECK_DEADLOCK FALSE
