CONSTANT Containers = {k1}
SPECIFICATION Spec
INVARIANT SnapshotIsComplete
