SPECIFICATION PeerSpec
CONSTANTS
    StaffDeals = {d1}
    NoDeal = NoDeal
    Lane = {d1}
    Posts = {p1}
    Speech = {{"dont"}, {"wait"}}
    PeerClosures = 0
INVARIANT DontMeansDont
CHECK_DEADLOCK FALSE
