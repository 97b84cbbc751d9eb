--------------------------- MODULE MCAttachments ---------------------------
(* One diskful node and one that needs an Access replica. *)
EXTENDS Attachments

CONSTANTS n1, n2

MCNodes == {n1, n2}

Base == [disk |-> {n1}, elig |-> {n1, n2}, on |-> {n1, n2}, pref |-> {}, local |-> FALSE,
         max |-> 1, formed |-> TRUE, kinds |-> {"Publish", "Unpublish", "Stage"}, events |-> 4]

MCScenarios ==
    [\* The diskless node, with calls that fail and are retried.
     move |-> [Base EXCEPT !.on = {n2}, !.kinds = @ \cup {"Fail"}],
     \* Two nodes at a time.
     multi |-> [Base EXCEPT !.max = 2, !.events = 3, !.kinds = @ \ {"Stage"}],
     \* A volume with an early attachment is created, and deleted or given up.
     life |-> [Base EXCEPT !.formed = FALSE, !.pref = {n2}, !.events = 3,
                           !.kinds = {"CreateVolume", "DeleteVolume", "Unpublish", "Fail"}],
     \* The same without the attachment, behind a lagging cache; somebody deletes the volume.
     fresh |-> [Base EXCEPT !.formed = FALSE,
                            !.kinds = {"CreateVolume", "DeleteVolume", "UserDeleteVolume", "Fail", "Lag"}],
     \* The volume is deleted, with controller restarts.
     delete |-> [Base EXCEPT !.on = {n2}, !.kinds = @ \cup {"DeleteVolume", "Crash"}],
     \* A second RVA on the node, made by hand.
     hand |-> [Base EXCEPT !.on = {n2}, !.kinds = {"Publish", "Unpublish", "UserCreate", "UserDelete"}],
     \* A controller whose cache lags behind its own writes.
     lag |-> [Base EXCEPT !.on = {n2}, !.kinds = @ \cup {"Lag", "Fail"}],
     \* A volume whose data may only be used where it is.
     local |-> [Base EXCEPT !.local = TRUE, !.events = 3]]
============================================================================
