SPECIFICATION Spec
CONSTANTS
    job = job
    login = login
    down = down
    on = on
    jobRoute = jobRoute
    farRoute = farRoute
    Links = {job, control, upstream}
    NoLink = NoLink
    Control = control
    Upstream = upstream
    Routes = {jobRoute, farRoute, controlRoute}
    ControlRoute = controlRoute
    Requests = {login, down, on}
    From <- MCFrom
    To <- MCTo
    Binds <- MCBinds
    OutSize = 1
    InputSize = 1
    Streams = {down}
    MaxCloses = 1
INVARIANTS
    WrTypeOK
    NothingOvertaken
    AnswersGoHome
PROPERTIES
    RequestsSettle
CHECK_DEADLOCK FALSE
