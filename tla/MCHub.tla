------------------------------- MODULE MCHub -------------------------------
(***************************************************************************)
(* Small Picos for Hub.  Ids take IdSpace = 12 values, which leaves room   *)
(* for every sensor type the parser knows.                                 *)
(***************************************************************************)
EXTENDS HubInvariants

CONSTANTS Engine, Tank

MCNames == {Engine, Tank}

NoName == {}

\* Two named devices and one without a name or sensors, three sensors: two on
\* one device, one on none.
TwoOnOne ==
    [system |-> [serial |-> 1, fw |-> 2],
     devices |-> << [type |-> 9, name |-> {Engine}], [type |-> 5, name |-> NoName] >>,
     sensors |-> << [type |-> 5, parent |-> {1}, local |-> {0}],
                    [type |-> 0, parent |-> {}, local |-> {}],
                    [type |-> 5, parent |-> {1}, local |-> {1}] >>]

\* A sensor whose parent field has every bit set beside one on device 0.
Detached ==
    [system |-> [serial |-> 1, fw |-> 2],
     devices |-> << [type |-> 8, name |-> {Tank}] >>,
     sensors |-> << [type |-> 8, parent |-> {NoParent}, local |-> {}],
                    [type |-> 11, parent |-> {0}, local |-> {2}] >>]

NoSensors == [system |-> [serial |-> 1, fw |-> 2],
     devices |-> << [type |-> 3, name |-> NoName] >>, sensors |-> <<>>]

\* The largest inventory the counts can express.
Full ==
    [system |-> [serial |-> 1, fw |-> 2],
     devices |-> [i \in 1..(IdSpace - 1) |-> [type |-> 1, name |-> NoName]],
     sensors |-> [i \in 1..(IdSpace - 1) |->
                    [type |-> 1,
                     parent |-> {IF i = 1 THEN NoParent ELSE IdSpace - i},
                     local |-> {}]]]

NoRequests == {}

SmallInventories == {TwoOnOne, Detached, NoSensors, Full}
DetachedInventory == {Detached}

\* A value for each sensor; for the last one only, and a num3 value in front
\* of it that the iterator yields and update_sensor_values passes over; none.
MCStateAnswers(p) ==
    LET all == Len(p.sensors)
    IN  { [i \in 1..all |-> Num1(i - 1, 100 + i)],
          IF all = 0 THEN << Num1(7, 107) >>
                     ELSE << Num3(0, 55), Num1(all - 1, 111) >> }
=============================================================================
