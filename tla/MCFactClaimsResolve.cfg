SPECIFICATION Spec
CONSTANTS
    tea = tea
    milk = milk
    rye = rye
    later = later
    drink = drink
    v1 = v1
    v2 = v2
    v3 = v3
    Memories = {1, 2, 3}
    ClaimIds = {1, 2, 3}
    Facts = {tea, milk, rye}
    Slots = {drink}
    Values = {v1, v2, v3}
    FactOf <- MCFactOf
    Texts <- SingleTexts
    Now = 1
    Open = Open
    MaxCalls = 4
    None = None
    Gone = Gone
    Idle = Idle
PROPERTIES
    ConflictSettled
