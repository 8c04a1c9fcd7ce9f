CONSTANT Containers = {k1}
SPECIFICATION FairSpec
PROPERTY DockerLossIsShown
