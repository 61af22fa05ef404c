CONSTANTS
    j1 = j1
    j2 = j2
    d1 = d1
    s1 = s1
    NoPath = NoPath
    Jobs = {j1, j2}
    Paths = {d1}
    MaxRuns = 2
    MaxFiles = 2
    Modes = {"scrape_and_rename", "only_scrape", "only_rename"}
    Stoppers = {s1}
    Requests = {"job", "stop_job", "path", "stop_path", "records"}
    Faults = {"crash", "db"}
    First = j1
SPECIFICATION SceneSpec
PROPERTIES ScrapeHolds JobSettles
CHECK_DEADLOCK FALSE
