----------------------------- MODULE AudioRoute -----------------------------
(***************************************************************************)
(* One request for a converted output (routes.py, _get_audio) over the     *)
(* conversions of Conversions: it reads the size, asks whether anything    *)
(* writes the file (transcode_writing), and if nothing does sends that     *)
(* size as the length of the film.  The loop that follows the file has the *)
(* same order: it reads to the end, and then asks (routes.py:866-872).     *)
(*                                                                         *)
(* The answer of the container stands for three seconds; a request that    *)
(* finds one is left out, since a conversion does not begin and lose its   *)
(* client in that time.                                                    *)
(***************************************************************************)
EXTENDS Conversions

VARIABLE reader \* the request: Nil, or its title, how far it is, whether the file has grown

(* A process that writes; one that is suspended only has the file open. *)
Growing(k) == Writers(k) \ Held # {}

RouteInit == ConvInit /\ reader = Nil

(* os.path.getsize(). *)
Measure == \E k \in files :
  /\ reader = Nil
  /\ reader' = [of |-> k, at |-> "measured", grown |-> Growing(k)]
  /\ UNCHANGED convVars
(* transcode_writing() asks the client, and the container if the client is gone. *)
AskClient ==
  /\ reader # Nil /\ reader.at = "measured" /\ lock = 0
  /\ reader' = IF Entry(reader.of) \in clients THEN Nil ELSE [reader EXCEPT !.at = "asked"]
  /\ UNCHANGED convVars
AskContainer ==
  /\ reader # Nil /\ reader.at = "asked"
  /\ reader' = IF Writers(reader.of) # {} THEN Nil ELSE [reader EXCEPT !.at = "whole"]
  /\ UNCHANGED convVars
Served == reader # Nil /\ reader.at = "whole" /\ reader' = Nil /\ UNCHANGED convVars

(* The conversions go on meanwhile; a restart ends the request. *)
Elsewhere ==
  /\ ConvNext
  /\ reader' = IF reader = Nil \/ restarts' # restarts THEN Nil
               ELSE [reader EXCEPT !.grown = @ \/
                 (reader.at # "whole" /\ \E k \in Titles : k = reader.of /\ Growing(k)')]

RouteNext == Measure \/ AskClient \/ AskContainer \/ Served \/ Elsewhere
RouteSpec == RouteInit /\ [][RouteNext]_<<convVars, reader>>

-----------------------------------------------------------------------------
(* The length of an output that is served as whole is its length: nothing has written
   it since its size was read.  "it then sent a Content-Length of the partial size"
   (transcode.py:448) is what asking the container was to end. *)
WholeIsWhole == reader # Nil /\ reader.at = "whole" => ~reader.grown
=============================================================================
