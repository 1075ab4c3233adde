CONSTANTS
    Users = {alice, bob}
    Gateways = {g1}
    Emojis = {wave, smile}
    nobody = nobody
    MaxChannels = 2
    MaxMessages = 2
SPECIFICATION Spec
SYMMETRY Symmetry
INVARIANTS TypeOK OneDMPerPair MembersOnly ReactionsCounted EventsExact
CHECK_DEADLOCK FALSE
