SPECIFICATION FairSpec
CONSTANT HZ = 10
INVARIANT PinShowsCall
PROPERTY PulseEnds
