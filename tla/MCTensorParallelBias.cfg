\* The vision tower of qwen2_vl on two ranks.
SPECIFICATION Spec
CHECK_DEADLOCK FALSE
CONSTANTS
    Deployments <- MCDeployments
    HeadSize = 2
    Flawed = {"qwen2_vl"}
INVARIANTS SameAsOneDevice
