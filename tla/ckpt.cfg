SPECIFICATION Spec
CONSTANTS
    cond = cond
    agent = agent
    person = person
    NoNode = NoNode
    Node = {cond, agent, person}
    Deps <- DepsFork
    Conditions = {cond}
    Gates = {person}
    Deadlined = {person}
    Budgeted = {agent}
    MediaNodes = {agent}
    Timed = {agent}
    RetryMax <- RetryA
    Cancels = TRUE
    Ceiling = 4
    MaxCrashes = 2
INVARIANTS ReadableHistory CheckpointAgrees RejectionIsFatal DeadlinesKept
PROPERTY ToldOnce
