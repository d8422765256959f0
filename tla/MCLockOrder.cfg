SPECIFICATION Spec
CONSTANT Tasks <- EveryTask
INVARIANT NoCircularWait
