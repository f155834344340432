SPECIFICATION Spec
INVARIANTS SampleExact PixelInPhase
PROPERTIES H8Pulses PhasesInTurn
