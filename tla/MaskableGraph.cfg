SPECIFICATION Spec
CONSTANTS Node = {n1, n2, n3, n4}
INVARIANT MapsAgree
PROPERTY ImplementsGraph
