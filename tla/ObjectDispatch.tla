--------------------------- MODULE ObjectDispatch ---------------------------
(***************************************************************************)
(* From object identifier, method index and role to a verdict, twice: by   *)
(* search in the object list of modules/server_object, and by hash in the  *)
(* server of rcore (ext_pr6_server.c, object_class.rb).                    *)
(***************************************************************************)
EXTENDS Naturals, Sequences

CONSTANT METHOD_INDEX_MAX

ASSUME DispatchAssumption == METHOD_INDEX_MAX \in Nat

-----------------------------------------------------------------------------
(* modules/server_object: a list of objects with lists of methods. *)

\* "in ascending order by .objectID", as the header says and the search expects. The
\* assertion of PR05_ServerObjectInit (:43) demands the descending order instead; a
\* build without assertions takes any list.
Ascending(list) == \A i, j \in 1..Len(list) : i < j => list[i].objectID < list[j].objectID

\* Faulty variant: the middle is taken for searched when the identifier is below it.
Found_OffByOne(list, id) ==
    LET search[part \in (0..Len(list)) \X (0..Len(list))] ==
            LET lower == part[1]
                upper == part[2]
                mid == (lower + upper) \div 2
            IN  IF lower >= upper THEN 0
                ELSE IF list[mid + 1].objectID > id THEN search[<<lower, IF mid > 0 THEN mid - 1 ELSE 0>>]
                ELSE IF list[mid + 1].objectID < id THEN search[<<mid + 1, upper>>]
                ELSE mid + 1
    IN  search[<<0, Len(list)>>]

\* The place of the object in the list, 0 if the search does not meet it.
Found(list, id) ==
    LET search[part \in (0..Len(list)) \X (0..Len(list))] ==
            LET lower == part[1]
                upper == part[2]
                mid == (lower + upper) \div 2
            IN  IF lower >= upper THEN 0
                ELSE IF list[mid + 1].objectID > id THEN search[<<lower, mid>>]
                ELSE IF list[mid + 1].objectID < id THEN search[<<mid + 1, upper>>]
                ELSE mid + 1
    IN  search[<<0, Len(list)>>]

\* The first method with that index decides.
ServerObjectInterface(list, id, index, role) ==
    LET methods == list[Found(list, id)].method
        places == {i \in 1..Len(methods) : methods[i].methodIndex = index}
        first == CHOOSE i \in places : \A k \in places : i <= k
    IN  IF Found(list, id) = 0 THEN "OBJECT_UNDEFINED"
        ELSE IF places = {} THEN "METHOD_UNDEFINED"
        ELSE IF methods[first].role \cap role = {} THEN "ACCESS_DENIED"
        ELSE "CALLED"

-----------------------------------------------------------------------------
(* rcore: objects by identifier, the roles of their handlers by index. *)

invoke(handlers, index, role) ==
    IF index \notin DOMAIN handlers THEN "METHOD_UNDEFINED"
    ELSE IF handlers[index] \cap role = {} THEN "ACCESS_DENIED"
    ELSE "CALLED"

serverObjectInterface(objects, id, index, role) ==
    IF id \notin DOMAIN objects THEN "OBJECT_UNDEFINED"
    ELSE invoke(objects[id], index, role)

\* The objects of a list, by identifier.
Hash(list) ==
    [id \in {list[i].objectID : i \in 1..Len(list)} |->
        LET methods == (CHOOSE e \in {list[i] : i \in 1..Len(list)} : e.objectID = id).method
        IN  [index \in {methods[i].methodIndex : i \in 1..Len(methods)} |->
                (CHOOSE m \in {methods[i] : i \in 1..Len(methods)} : m.methodIndex = index).role]]
=============================================================================
