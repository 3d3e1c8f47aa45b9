\* A server of either kind, its client and a terminal in which init is run.
CONSTANTS
    server = server
    Server <- OneServer
    Asked <- Methods
    Tool = {"call", "unknown"}
    Line <- Lines
    MaxFrames <- Frames
    MaxPipe = 2
    NoAnswer = NoAnswer
SPECIFICATION Spec
INVARIANTS AnswersMatch AnswersTellTheTruth HandshakeFirst
PROPERTIES RequestsAreAnswered
