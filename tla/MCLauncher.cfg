\* Three shards, sockets that may resist removal, any number of failures.
SPECIFICATION LiveSpec
CONSTANTS
    s1 = s1  s2 = s2  s3 = s3
    Shards <- ThreeShards
INVARIANTS TypeOK NoOrphanProcess WebserverStopsFirst WebserverAfterShards SuccessOnlyWhenAsked
PROPERTIES StopsWhenAsked FailureEndsLauncher
