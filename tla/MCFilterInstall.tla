--------------------------- MODULE MCFilterInstall ---------------------------
(* Two classes of one device each.                                         *)
EXTENDS FilterInstall

MCClassOf == <<1, 2>>
MCHwid == [d \in 1 .. 2 |-> [vid |-> 1, pid |-> d, mi |-> -1, rev |-> 1]]
MCDefaultClasses == {1}
MCForeignUppers == <<<<"kbd">>, <<>>>>
MCForeignFilters == << <<>>, <<"vendor">> >>

Line == [mode |-> "install", classes |-> {}, patterns |-> {}, allClasses |-> FALSE,
         deviceClasses |-> FALSE, allDevices |-> FALSE, inf |-> {}]
Instance(d) == [id |-> d, hwid |-> MCHwid[1]]
Ids == [id |-> 0, hwid |-> [vid |-> 1, pid |-> 2, mi |-> -1, rev |-> -1]]

(* One for each way through a command; none names both classes and devices. *)
MCCommands ==
    {Line, [Line EXCEPT !.patterns = {Ids}], [Line EXCEPT !.classes = {2}, !.inf = {1}],
     [Line EXCEPT !.mode = "remove", !.allClasses = TRUE],
     [Line EXCEPT !.mode = "remove", !.allDevices = TRUE],
     [Line EXCEPT !.mode = "remove", !.patterns = {Instance(2)}],
     [Line EXCEPT !.mode = "remove", !.inf = {1}]}
=============================================================================
