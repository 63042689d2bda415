SPECIFICATION Spec
CONSTANTS
    Actions = {a1}
    Leads = {l1}
    Flags <- MCFlags
INVARIANT RunsOnceUnlessPutBack
PROPERTIES UnattendedIsCleared EffectIsAllowed ActsAtMostOnce
