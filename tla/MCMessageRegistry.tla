-------------------------- MODULE MCMessageRegistry --------------------------
(***************************************************************************)
(* Two generated files, type.proto and the source_context.proto it imports,  *)
(* and their once objects as their closures call each other:                 *)
(* protobuf_AssignDescriptors (type.pb.cc:151, and the factory through       *)
(* generated_message_reflection.cc:2333), AddDescriptorsImpl                 *)
(* (type.pb.cc:170-219), InitDefaultsImpl (type.pb.cc:56-61), the generated  *)
(* pool (descriptor.cc:1314).  The other import, any.proto, and the empty    *)
(* string are shaped as source_context.proto and the pool, and left out.     *)
(***************************************************************************)
EXTENDS MessageRegistry

CONSTANTS t1, t2, file, imported, assign, add, defaults, sc_assign, sc_add, sc_defaults, pool

MCFiles == {file, imported}
MCTypesOf == [f \in Files |-> IF f = file THEN {"Type", "Field"} ELSE {"SourceContext"}]
MCAddOf == [f \in Files |-> IF f = file THEN add ELSE sc_add]
MCAssignOf == [f \in Files |-> IF f = file THEN assign ELSE sc_assign]
MCCalls ==
  [o \in Onces |->
     CASE o = assign      -> <<add, pool, factory>>
       [] o = add         -> <<defaults, pool, factory, sc_add>>
       [] o = defaults    -> <<sc_defaults>>
       [] o = sc_assign   -> <<sc_add, pool, factory>>
       [] o = sc_add      -> <<sc_defaults, pool, factory>>
       [] OTHER           -> << >>]
=============================================================================
