\* A worker in each of two linked projects with one task; one project may move.
CONSTANTS
    web = web
    api = api
    w1 = w1
    w2 = w2
    Repo <- Projects
    Alias = {"other"}
    NoRepo = NoRepo
    Worker <- Workers
    Home <- OneEach
    Movable <- WebMoves
    MaxTasks = 1
    MaxDeps = 1
SPECIFICATION Spec
INVARIANTS NobodyWaitsInACircle WedgesSpanProjects
PROPERTIES CommitsOnTrueAnswers
