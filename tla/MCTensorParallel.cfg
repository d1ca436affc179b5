\* Every model class on one, two and three ranks.
SPECIFICATION Spec
\* One forward pass: it ends.
CHECK_DEADLOCK FALSE
CONSTANTS
    Deployments <- MCDeployments
    HeadSize = 2
    Flawed = {}
INVARIANTS SameAsOneDevice EvenlyDividedIsServed
PROPERTIES NoRankLeftWaiting
