---------------------------- MODULE MCMonthlySync ----------------------------
(***************************************************************************)
(* Monthly syncs on small instances: years of two months, and callers that *)
(* ask for less than a month or for two.  The series go through the same   *)
(* steps, so one is enough for the liveness of all.  Tables of the page    *)
(* lose a row in the middle or at the end, lack an amount in the middle or *)
(* at the beginning, and are corrected.                                    *)
(***************************************************************************)
EXTENDS MonthlySync

CONSTANTS utm, ipc

BothSeries == <<utm, ipc>>
OneSeries  == <<ipc>>

Read(upper) == [upper |-> upper, readable |-> TRUE]
Lost(upper) == [upper |-> upper, readable |-> FALSE]

\* For bases up to 2.
MiddleLost  == <<Read(1), Lost(2), Read(Open)>>
EndLost     == <<Read(1), Read(2), Lost(Open)>>
NoAmount    == <<Read(1), Read(Open), Read(2), Read(Open)>>
NoBeginning == <<Lost(Open), Read(2), Read(Open)>>
OtherBounds == <<Read(2), Read(Open)>>

ThreeMonths == << <<MiddleLost>>, <<NoAmount, NoBeginning>>,
                  <<EndLost, OtherBounds>> >>

TwoMonths == [m \in 1 .. 2 |-> << <<Read(1), Read(Open)>> >>]
=============================================================================
