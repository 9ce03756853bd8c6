SPECIFICATION FairSpec
CONSTANTS
    Handlers = {h1, h2}
    NoHandler = NoHandler
    iden = iden
    core = core
    m1 = m1
    Channels = {iden, core}
    NoChannel = NoChannel
    Identity = iden
    Messages = {m1}
    ChanOf <- CoreMessage
    NoMessage = NoMessage
    Reply = Reply
INVARIANTS
    TypeOK
    HandlerHears
    TakenIsWritten
    ServedIsTracked
    NothingServedAfterStop
PROPERTIES
    ClosedHandlerIsForgotten
    ShutdownClosesHandlers
\* The process ends, by log.Fatal or after Stop.
CHECK_DEADLOCK FALSE
