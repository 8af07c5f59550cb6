CONSTANTS
    Users <- NoUsers
    Models <- TwoHeads
    Tokens = {1, 2}
    MaxPrompt = 2
    Eos = 2
    MaxNew = 2
SPECIFICATION InferSpec
INVARIANT
    HeadsReadTheirOwn
