------------------------------- MODULE StrmScan ------------------------------
(****************************************************************************)
(* The generation of STRM files (app/services/media/strm_generator.py,      *)
(* strm_service.py) in its mode redirect: each file of the cloud gets a     *)
(* local file with a stable address, and a row of media_mappings            *)
(* (app/services/media_mapping_service.py) leads from that address to the   *)
(* file.  The cloud's owner moves, replaces and deletes files meanwhile.    *)
(*                                                                          *)
(* A media_id is a uuid made of the id of the file it was created for, and  *)
(* is written here as that id.                                              *)
(****************************************************************************)
EXTENDS Naturals, FiniteSets

CONSTANTS
    Paths, Fids,    \* paths and ids of files in the cloud
    Scans,          \* requests that scan
    None, Empty

ScanAssumption == {None, Empty} \cap (Paths \cup Fids) = {} /\ None # Empty

VARIABLES
    cloud,      \* the id of the file at each path
    used,       \* ids there have been: none is given twice
    mapping,    \* media_mappings: the row of each media_id
    strm,       \* the media_id in the local file of each path
    scan        \* the scans: what is still to be listed, and to be written

vars == <<cloud, used, mapping, strm, scan>>

NoRow == [fid |-> None, path |-> None]

Idle == [on |-> FALSE, list |-> {}, todo |-> {}, over |-> FALSE]

TypeOK ==
    /\ cloud \in [Paths -> Fids \cup {None}]
    /\ used \subseteq Fids
    /\ mapping \in [Fids -> [fid : Fids \cup {None}, path : Paths \cup {None}]]
    /\ strm \in [Paths -> Fids \cup {None, Empty}]
    /\ scan \in [Scans -> [on : BOOLEAN, list : SUBSET Paths, todo : SUBSET (Paths \X Fids),
                           over : BOOLEAN]]

Init ==
    /\ cloud = [p \in Paths |-> None]
    /\ used = {}
    /\ mapping = [m \in Fids |-> NoRow]
    /\ strm = [p \in Paths |-> None]
    /\ scan = [s \in Scans |-> Idle]

-----------------------------------------------------------------------------
(* The owner of the cloud uploads, moves and deletes.                       *)
Upload(f, p) ==
    /\ f \notin used /\ cloud[p] = None
    /\ cloud' = [cloud EXCEPT ![p] = f]
    /\ used' = used \cup {f}
    /\ UNCHANGED <<mapping, strm, scan>>

Move(p, q) ==
    /\ cloud[p] # None /\ cloud[q] = None
    /\ cloud' = [cloud EXCEPT ![q] = cloud[p], ![p] = None]
    /\ UNCHANGED <<used, mapping, strm, scan>>

Delete(p) ==
    /\ cloud[p] # None
    /\ cloud' = [cloud EXCEPT ![p] = None]
    /\ UNCHANGED <<used, mapping, strm, scan>>

-----------------------------------------------------------------------------
(* scan_directory, with or without overwrite_existing.                      *)
Begin(s, over) ==
    /\ ~scan[s].on
    /\ scan' = [scan EXCEPT ![s] = [on |-> TRUE, list |-> Paths, todo |-> {}, over |-> over]]
    /\ UNCHANGED <<cloud, used, mapping, strm>>

(* _get_all_files lists one directory after the other; one that cannot be   *)
(* listed is left out, as are files beyond max_files.                       *)
List(s, p) ==
    /\ p \in scan[s].list
    /\ \E found \in SUBSET {<<p, f>> : f \in {cloud[p]} \ {None}} :
         scan' = [scan EXCEPT ![s].list = @ \ {p}, ![s].todo = @ \cup found]
    /\ UNCHANGED <<cloud, used, mapping, strm>>

Row(m) == mapping[m] # NoRow

OfFile(f) == {m \in Fids : mapping[m].fid = f}

OfPath(p) == {m \in Fids : mapping[m].path = p}

(* Wrong on purpose: the row of the path, if there is one, comes first.     *)
ExistingOfPath(f, p) == IF OfPath(p) # {} THEN OfPath(p) ELSE OfFile(f)

(* Wrong on purpose: the row that was once made for the file counts too.    *)
ExistingOnce(f, p) == IF OfFile(f) # {} THEN OfFile(f) ELSE OfPath(p) \cup {m \in {f} : Row(m)}

(* _find_existing_mapping: the row of the file, or else one of the path.    *)
Existing(f, p) == IF OfFile(f) # {} THEN OfFile(f) ELSE OfPath(p)

(* Wrong on purpose: the row is committed after the file is written.        *)
InTableLater(m, f, p) == UNCHANGED mapping

(* Wrong on purpose: the two arguments have changed places.                 *)
InTableSwapped(m, f, p) == mapping' = [mapping EXCEPT ![m] = [fid |-> p, path |-> f]]

InTable(m, f, p) == mapping' = [mapping EXCEPT ![m] = [fid |-> f, path |-> p]]

(* get_or_create: the row m is brought up to date, or a new one is made,    *)
(* for which its media_id must be free.                                     *)
get_or_create(m, f, p) ==
    /\ IF Existing(f, p) # {} THEN m \in Existing(f, p) ELSE m = f /\ ~Row(f)
    /\ InTable(m, f, p)

Skipped(s, p) == strm[p] # None /\ ~scan[s].over

Done(s, item) == scan' = [scan EXCEPT ![s].todo = @ \ {item}]

Listed(s) == scan[s].on /\ scan[s].list = {}

(* _generate_single_strm                                                    *)
Skip(s, p, f) ==
    /\ Listed(s) /\ <<p, f>> \in scan[s].todo
    /\ Skipped(s, p)
    /\ Done(s, <<p, f>>)
    /\ UNCHANGED <<cloud, used, mapping, strm>>

Generate(s, p, f) ==
    /\ Listed(s) /\ <<p, f>> \in scan[s].todo
    /\ ~Skipped(s, p)
    /\ \E m \in Fids : get_or_create(m, f, p) /\ strm' = [strm EXCEPT ![p] = m]
    /\ Done(s, <<p, f>>)
    /\ UNCHANGED <<cloud, used>>

(* The table refuses the row, as its media_id is taken by another file, or  *)
(* for a reason of its own; the next file's turn comes.                     *)
NotMapped(s, p, f) ==
    /\ Listed(s) /\ <<p, f>> \in scan[s].todo
    /\ ~Skipped(s, p)
    /\ Done(s, <<p, f>>)
    /\ UNCHANGED <<cloud, used, mapping, strm>>

(* The row is committed, and writing the file fails, before or after it has *)
(* been emptied; or the process ends there, and with it every scan.         *)
NotWritten(s, p, f) ==
    /\ Listed(s) /\ <<p, f>> \in scan[s].todo
    /\ ~Skipped(s, p)
    /\ \E m \in Fids : get_or_create(m, f, p)
    /\ strm' \in {strm, [strm EXCEPT ![p] = Empty]}
    /\ Done(s, <<p, f>>) \/ scan' = [t \in Scans |-> Idle]
    /\ UNCHANGED <<cloud, used>>

Ends(s) ==
    /\ Listed(s) /\ scan[s].todo = {}
    /\ scan' = [scan EXCEPT ![s] = Idle]
    /\ UNCHANGED <<cloud, used, mapping, strm>>

Next ==
    \/ \E f \in Fids, p \in Paths : Upload(f, p)
    \/ \E p, q \in Paths : Move(p, q)
    \/ \E p \in Paths : Delete(p)
    \/ \E s \in Scans :
         \/ \E over \in BOOLEAN : Begin(s, over)
         \/ \E p \in Paths : List(s, p)
         \/ \E p \in Paths, f \in Fids :
              Skip(s, p, f) \/ Generate(s, p, f) \/ NotMapped(s, p, f) \/ NotWritten(s, p, f)
         \/ Ends(s)

Spec == Init /\ [][Next]_vars

-----------------------------------------------------------------------------
(* No file of the cloud has two addresses, though rows are found by file    *)
(* and by path and scans work on listings that are out of date.             *)
OneAddress == \A f \in Fids : Cardinality(OfFile(f)) <= 1

(* An address written to a file leads somewhere: its row was committed      *)
(* before, whatever failed or ended since.                                  *)
LeadsSomewhere == \A p \in Paths : strm[p] \in Fids => Row(strm[p])

(* A row that is brought up to date keeps its file or its path: no step     *)
(* sends the players of an address to another file in another place.        *)
KeepsOneEnd ==
    \A m \in Fids : Row(m) => mapping'[m].fid = mapping[m].fid
                              \/ mapping'[m].path = mapping[m].path
=============================================================================
