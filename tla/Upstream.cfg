\* A status of every class that matters, and one success.
SPECIFICATION USpec
CONSTANTS
    Statuses = {200, 400, 429, 500, 502, 503, 504}
INVARIANTS OkIsWhole ClassIsTrue
PROPERTIES TimedCallEnds
