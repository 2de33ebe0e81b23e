------------------------------- MODULE MCChannels -------------------------------
\* Four threads. In the run of the queue two of them put and two get, as in
\* queue_test.cpp, and one of the first also polls with peek; as many values are put
\* as are taken. In the run of the pipe two write, one of which closes the pipe while
\* the other may still write, and two drain it with reads of no, one or two bytes.
EXTENDS Channels

CONSTANTS t1, t2, t3, t4, a, b

MCThreads == {t1, t2, t3, t4}
MCValues == {a, b}

Calls(puts, gets, peeks) == [put |-> puts, get |-> gets, peek |-> peeks]

MCWorkload ==
    [t \in MCThreads |->
        CASE t = t1 -> Calls(<<a, b>>, 0, 0)
          [] t = t2 -> Calls(<<b, a>>, 0, 1)
          [] t = t3 -> Calls(<<>>, 2, 0)
          [] t = t4 -> Calls(<<>>, 1, 0)]

Item(op, data) == [op |-> op, data |-> data]

MCScript ==
    [t \in MCThreads |->
        CASE t = t1 -> <<Item("write", <<a, b, b>>), Item("close", <<>>)>>
          [] t = t2 -> <<Item("write", <<b>>), Item("write", <<>>)>>
          [] t \in {t3, t4} -> <<Item("drain", <<>>)>>]

================================================================================
