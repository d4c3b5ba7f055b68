CONSTANTS
    s1 = s1
    c1 = c1
    c2 = c2
    Symbol = {s1}
    Price = {1, 2}
    Subscriber = {c1, c2}
    MaxSequence = 4
    MaxAsks = 3
    MaxFailures = 2
SPECIFICATION TbtSpec
CHECK_DEADLOCK FALSE
INVARIANTS
    BookIsTheExchanges
    BooksAreFed
