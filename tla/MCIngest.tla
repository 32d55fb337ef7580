------------------------------- MODULE MCIngest -------------------------------
(* A model-checking instance of Ingest, with events around every limit. *)
EXTENDS Ingest

Small == [event_id |-> 0, user_id |-> 1, event_type |-> 1, platform |-> 0,
          payload |-> 0, ts |-> 0]

MCShapes == {Small,
             [Small EXCEPT !.user_id = 0, !.event_type = 0],  \* empty if ts is 0
             [Small EXCEPT !.user_id = MAX_NAME],
             [Small EXCEPT !.event_type = MAX_NAME + 1],
             [Small EXCEPT !.payload = MAX_PAYLOAD, !.platform = MAX_PLATFORM],
             [Small EXCEPT !.platform = MAX_PLATFORM + 1],
             [Small EXCEPT !.event_id = MAX_LEN - 7],         \* below MAX_LEN
             [Small EXCEPT !.event_id = MAX_LEN - 6]}         \* MAX_LEN

MCOffsets == {-MAX_AGE - 1, -MAX_AGE, 0, MAX_AHEAD, MAX_AHEAD + 1}
===============================================================================
