SPECIFICATION FairSpec
CONSTANTS
    Threads = {t1, t2}
    Callers = {act, net}
    Activator = act
    Main = main
    Callbacks = {c1, c2, s1, fl}
    Markers = {s1}
    Flushed = fl
    Limit = 0
    None = None
 
PROPERTIES Implements 
CHECK_DEADLOCK FALSE
