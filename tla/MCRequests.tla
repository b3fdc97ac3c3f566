---- MODULE MCRequests ----
EXTENDS Requests, TLC

CONSTANTS c1, t1, t2

Call(call, ip, id) == [call |-> call, ip |-> ip, sub |-> "s", id |-> id]
MCKeys == {"a", "b", "s"}
MCSurface == [k \in MCKeys |-> IF k = "s" THEN "subject" ELSE "ip"]

\* Both limiters and time; the subject limiter and handlers that await; every
\* handler, without limits.
Tight == [ip |-> 1, subject |-> 0]
Half  == [ip |-> 0, subject |-> 1]
Open  == [ip |-> 0, subject |-> 0]
MCLimits == {Tight, Half, Open}
MCMenu == Tight :> (t1 :> {Call("read", "a", None)} @@ t2 :> {Call("read", "a", None), Call("read", "b", None)})
          @@ Half :> [t \in {t1, t2} |-> {Call("guest", "a", None)}]
          @@ Open :> (t1 :> {Call("invoke", "a", "f1"), Call("guest", "a", None), Call("define", "a", c1)}
                      @@ t2 :> {Call("invoke", "a", "f1"), Call("delete", "a", c1), Call("upload", "b", None)})
MCMaxClock == Tight :> 4 @@ Half :> 4 @@ Open :> 0
MCMaxRequests == Tight :> 3 @@ Half :> 3 @@ Open :> 4
====
