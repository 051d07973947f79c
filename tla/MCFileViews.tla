----------------------------- MODULE MCFileViews -----------------------------
(* Instances of FileViews for TLC: the sets are in the .cfg file.            *)
EXTENDS FileViews, TLC

Symmetry == Permutations(Threads) \cup Permutations(Mappings)

\* A machine that has stopped does nothing more, and Stop changes nothing else.
StoppedAlike == IF stopped = "no" THEN vars ELSE <<stopped>>

\* Mappings and views use all the protection they may.
StrongestProtection ==
    /\ \A m \in Mappings : mapping[m].write = (mapping[m].file \in Writable)
    /\ \A t \in Threads : call[t].view # None => call[t].view.write = mapping[call[t].mapping].write

\* A file is read or closed only after it is mapped.
MappedFirst ==
    \A f \in Files :
        ~file[f].open \/ (\E t \in Threads : call[t].at = "read" /\ call[t].file = f) =>
            \E m \in Mappings : mapping[m].file = f

\* Callers choose the place of one view, with one page.
OneChosen ==
    /\ \A t \in Threads : call[t].view # None /\ call[t].view.chosen => call[t].view.size = 1
    /\ \A t \in Threads, m \in Mappings :
        Chosen(m) # {} /\ call[t].at \in {"map", "insert"} => ~call[t].view.chosen
    /\ Cardinality({t \in Threads : call[t].view # None /\ call[t].view.chosen}) < 2

\* A view behind the start of its file is the first of its mapping, at no chosen place.
OneOffset ==
    /\ \A t \in Threads : call[t].view # None /\ call[t].view.chosen => call[t].view.offset = 0
    /\ \A t \in Threads : call[t].at \in {"map", "insert"} /\ views[call[t].mapping] # <<>> =>
          call[t].view.offset = 0
=============================================================================
