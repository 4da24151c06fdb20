--------------------------- MODULE MethodLayouts ---------------------------
(***************************************************************************)
(* The fields of every method and of every content header, in the order    *)
(* the generated code of amqp_framing.c reads and writes them.  Reading    *)
(* and writing are separate code, so they have separate tables here.       *)
(***************************************************************************)
EXTENDS Integers, Sequences

(* How a field is written, and which member of the struct it is; size is   *)
(* the width of a number or of a string's length.  Flags share an octet,   *)
(* the first in its lowest bit.                                            *)
Field(coding, size, name) ==
  [coding |-> coding, size |-> size, names |-> <<name>>]

octet(name) == Field("number", 1, name)
short(name) == Field("number", 2, name)
long(name) == Field("number", 4, name)
longlong(name) == Field("halves", 8, name)
shortstr(name) == Field("string", 1, name)
longstr(name) == Field("string", 4, name)
table(name) == Field("table", 4, name)
bits(flags) == [coding |-> "bits", size |-> 1, names |-> flags]

-----------------------------------------------------------------------------
(* amqp_decode_method                                                      *)

ConnectionDecoder ==
  [start |-> <<octet("version_major"), octet("version_minor"),
               table("server_properties"), longstr("mechanisms"),
               longstr("locales")>>,
   start_ok |-> <<table("client_properties"), shortstr("mechanism"),
                  longstr("response"), shortstr("locale")>>,
   secure |-> <<longstr("challenge")>>, secure_ok |-> <<longstr("response")>>,
   tune |-> <<short("channel_max"), long("frame_max"), short("heartbeat")>>,
   tune_ok |-> <<short("channel_max"), long("frame_max"), short("heartbeat")>>,
   open |-> <<shortstr("virtual_host"), shortstr("capabilities"),
              bits(<<"insist">>)>>, open_ok |-> <<shortstr("known_hosts")>>,
   redirect |-> <<shortstr("host"), shortstr("known_hosts")>>,
   close |-> <<short("reply_code"), shortstr("reply_text"), short("class_id"),
               short("method_id")>>, close_ok |-> <<>>]

ChannelDecoder ==
  [open |-> <<shortstr("out_of_band")>>, open_ok |-> <<>>,
   flow |-> <<bits(<<"active">>)>>, flow_ok |-> <<bits(<<"active">>)>>,
   alert |-> <<short("reply_code"), shortstr("reply_text"), table("details")>>,
   close |-> <<short("reply_code"), shortstr("reply_text"), short("class_id"),
               short("method_id")>>, close_ok |-> <<>>]

AccessDecoder ==
  [request |-> <<shortstr("realm"),
                 bits(<<"exclusive", "passive", "active", "write", "read">>)>>,
   request_ok |-> <<short("ticket")>>]

ExchangeDecoder ==
  [declare |-> <<short("ticket"), shortstr("exchange"), shortstr("type"),
                 bits(<<"passive", "durable", "auto_delete", "internal", "nowait">>),
                 table("arguments")>>, declare_ok |-> <<>>,
   delete |-> <<short("ticket"), shortstr("exchange"),
                bits(<<"if_unused", "nowait">>)>>, delete_ok |-> <<>>]

QueueDecoder ==
  [declare |-> <<short("ticket"), shortstr("queue"),
                 bits(<<"passive", "durable", "exclusive", "auto_delete", "nowait">>),
                 table("arguments")>>,
   declare_ok |-> <<shortstr("queue"), long("message_count"),
                    long("consumer_count")>>,
   bind |-> <<short("ticket"), shortstr("queue"), shortstr("exchange"),
              shortstr("routing_key"), bits(<<"nowait">>),
              table("arguments")>>, bind_ok |-> <<>>,
   purge |-> <<short("ticket"), shortstr("queue"), bits(<<"nowait">>)>>,
   purge_ok |-> <<long("message_count")>>,
   delete |-> <<short("ticket"), shortstr("queue"),
                bits(<<"if_unused", "if_empty", "nowait">>)>>,
   delete_ok |-> <<long("message_count")>>,
   unbind |-> <<short("ticket"), shortstr("queue"), shortstr("exchange"),
                shortstr("routing_key"), table("arguments")>>,
   unbind_ok |-> <<>>]

BasicDecoder ==
  [qos |-> <<long("prefetch_size"), short("prefetch_count"),
             bits(<<"global">>)>>, qos_ok |-> <<>>,
   consume |-> <<short("ticket"), shortstr("queue"), shortstr("consumer_tag"),
                 bits(<<"no_local", "no_ack", "exclusive", "nowait">>)>>,
   consume_ok |-> <<shortstr("consumer_tag")>>,
   cancel |-> <<shortstr("consumer_tag"), bits(<<"nowait">>)>>,
   cancel_ok |-> <<shortstr("consumer_tag")>>,
   publish |-> <<short("ticket"), shortstr("exchange"),
                 shortstr("routing_key"), bits(<<"mandatory", "immediate">>)>>,
   return |-> <<short("reply_code"), shortstr("reply_text"),
                shortstr("exchange"), shortstr("routing_key")>>,
   deliver |-> <<shortstr("consumer_tag"), longlong("delivery_tag"),
                 bits(<<"redelivered">>), shortstr("exchange"),
                 shortstr("routing_key")>>,
   get |-> <<short("ticket"), shortstr("queue"), bits(<<"no_ack">>)>>,
   get_ok |-> <<longlong("delivery_tag"), bits(<<"redelivered">>),
                shortstr("exchange"), shortstr("routing_key"),
                long("message_count")>>,
   get_empty |-> <<shortstr("cluster_id")>>,
   ack |-> <<longlong("delivery_tag"), bits(<<"multiple">>)>>,
   reject |-> <<longlong("delivery_tag"), bits(<<"requeue">>)>>,
   recover_async |-> <<bits(<<"requeue">>)>>,
   recover |-> <<bits(<<"requeue">>)>>, recover_ok |-> <<>>]

FileDecoder ==
  [qos |-> <<long("prefetch_size"), short("prefetch_count"),
             bits(<<"global">>)>>, qos_ok |-> <<>>,
   consume |-> <<short("ticket"), shortstr("queue"), shortstr("consumer_tag"),
                 bits(<<"no_local", "no_ack", "exclusive", "nowait">>)>>,
   consume_ok |-> <<shortstr("consumer_tag")>>,
   cancel |-> <<shortstr("consumer_tag"), bits(<<"nowait">>)>>,
   cancel_ok |-> <<shortstr("consumer_tag")>>,
   open |-> <<shortstr("identifier"), longlong("content_size")>>,
   open_ok |-> <<longlong("staged_size")>>, stage |-> <<>>,
   publish |-> <<short("ticket"), shortstr("exchange"),
                 shortstr("routing_key"), bits(<<"mandatory", "immediate">>),
                 shortstr("identifier")>>,
   return |-> <<short("reply_code"), shortstr("reply_text"),
                shortstr("exchange"), shortstr("routing_key")>>,
   deliver |-> <<shortstr("consumer_tag"), longlong("delivery_tag"),
                 bits(<<"redelivered">>), shortstr("exchange"),
                 shortstr("routing_key"), shortstr("identifier")>>,
   ack |-> <<longlong("delivery_tag"), bits(<<"multiple">>)>>,
   reject |-> <<longlong("delivery_tag"), bits(<<"requeue">>)>>]

StreamDecoder ==
  [qos |-> <<long("prefetch_size"), short("prefetch_count"),
             long("consume_rate"), bits(<<"global">>)>>, qos_ok |-> <<>>,
   consume |-> <<short("ticket"), shortstr("queue"), shortstr("consumer_tag"),
                 bits(<<"no_local", "exclusive", "nowait">>)>>,
   consume_ok |-> <<shortstr("consumer_tag")>>,
   cancel |-> <<shortstr("consumer_tag"), bits(<<"nowait">>)>>,
   cancel_ok |-> <<shortstr("consumer_tag")>>,
   publish |-> <<short("ticket"), shortstr("exchange"),
                 shortstr("routing_key"), bits(<<"mandatory", "immediate">>)>>,
   return |-> <<short("reply_code"), shortstr("reply_text"),
                shortstr("exchange"), shortstr("routing_key")>>,
   deliver |-> <<shortstr("consumer_tag"), longlong("delivery_tag"),
                 shortstr("exchange"), shortstr("queue")>>]

TxDecoder ==
  [select |-> <<>>, select_ok |-> <<>>, commit |-> <<>>, commit_ok |-> <<>>,
   rollback |-> <<>>, rollback_ok |-> <<>>]

DtxDecoder ==
  [select |-> <<>>, select_ok |-> <<>>,
   start |-> <<shortstr("dtx_identifier")>>, start_ok |-> <<>>]

TunnelDecoder ==
  [request |-> <<table("meta_data")>>]

TestDecoder ==
  [integer |-> <<octet("integer_1"), short("integer_2"), long("integer_3"),
                 longlong("integer_4"), octet("operation")>>,
   integer_ok |-> <<longlong("result")>>,
   string |-> <<shortstr("string_1"), longstr("string_2"),
                octet("operation")>>, string_ok |-> <<longstr("result")>>,
   table |-> <<table("table"), octet("integer_op"), octet("string_op")>>,
   table_ok |-> <<longlong("integer_result"), longstr("string_result")>>,
   content |-> <<>>, content_ok |-> <<long("content_checksum")>>]

MethodDecoder ==
  [connection |-> ConnectionDecoder,
   channel |-> ChannelDecoder,
   access |-> AccessDecoder,
   exchange |-> ExchangeDecoder,
   queue |-> QueueDecoder,
   basic |-> BasicDecoder,
   file |-> FileDecoder,
   stream |-> StreamDecoder,
   tx |-> TxDecoder,
   dtx |-> DtxDecoder,
   tunnel |-> TunnelDecoder,
   test |-> TestDecoder]

-----------------------------------------------------------------------------
(* amqp_encode_method                                                      *)

ConnectionEncoder ==
  [start |-> <<octet("version_major"), octet("version_minor"),
               table("server_properties"), longstr("mechanisms"),
               longstr("locales")>>,
   start_ok |-> <<table("client_properties"), shortstr("mechanism"),
                  longstr("response"), shortstr("locale")>>,
   secure |-> <<longstr("challenge")>>, secure_ok |-> <<longstr("response")>>,
   tune |-> <<short("channel_max"), long("frame_max"), short("heartbeat")>>,
   tune_ok |-> <<short("channel_max"), long("frame_max"), short("heartbeat")>>,
   open |-> <<shortstr("virtual_host"), shortstr("capabilities"),
              bits(<<"insist">>)>>, open_ok |-> <<shortstr("known_hosts")>>,
   redirect |-> <<shortstr("host"), shortstr("known_hosts")>>,
   close |-> <<short("reply_code"), shortstr("reply_text"), short("class_id"),
               short("method_id")>>, close_ok |-> <<>>]

ChannelEncoder ==
  [open |-> <<shortstr("out_of_band")>>, open_ok |-> <<>>,
   flow |-> <<bits(<<"active">>)>>, flow_ok |-> <<bits(<<"active">>)>>,
   alert |-> <<short("reply_code"), shortstr("reply_text"), table("details")>>,
   close |-> <<short("reply_code"), shortstr("reply_text"), short("class_id"),
               short("method_id")>>, close_ok |-> <<>>]

AccessEncoder ==
  [request |-> <<shortstr("realm"),
                 bits(<<"exclusive", "passive", "active", "write", "read">>)>>,
   request_ok |-> <<short("ticket")>>]

ExchangeEncoder ==
  [declare |-> <<short("ticket"), shortstr("exchange"), shortstr("type"),
                 bits(<<"passive", "durable", "auto_delete", "internal", "nowait">>),
                 table("arguments")>>, declare_ok |-> <<>>,
   delete |-> <<short("ticket"), shortstr("exchange"),
                bits(<<"if_unused", "nowait">>)>>, delete_ok |-> <<>>]

QueueEncoder ==
  [declare |-> <<short("ticket"), shortstr("queue"),
                 bits(<<"passive", "durable", "exclusive", "auto_delete", "nowait">>),
                 table("arguments")>>,
   declare_ok |-> <<shortstr("queue"), long("message_count"),
                    long("consumer_count")>>,
   bind |-> <<short("ticket"), shortstr("queue"), shortstr("exchange"),
              shortstr("routing_key"), bits(<<"nowait">>),
              table("arguments")>>, bind_ok |-> <<>>,
   purge |-> <<short("ticket"), shortstr("queue"), bits(<<"nowait">>)>>,
   purge_ok |-> <<long("message_count")>>,
   delete |-> <<short("ticket"), shortstr("queue"),
                bits(<<"if_unused", "if_empty", "nowait">>)>>,
   delete_ok |-> <<long("message_count")>>,
   unbind |-> <<short("ticket"), shortstr("queue"), shortstr("exchange"),
                shortstr("routing_key"), table("arguments")>>,
   unbind_ok |-> <<>>]

BasicEncoder ==
  [qos |-> <<long("prefetch_size"), short("prefetch_count"),
             bits(<<"global">>)>>, qos_ok |-> <<>>,
   consume |-> <<short("ticket"), shortstr("queue"), shortstr("consumer_tag"),
                 bits(<<"no_local", "no_ack", "exclusive", "nowait">>)>>,
   consume_ok |-> <<shortstr("consumer_tag")>>,
   cancel |-> <<shortstr("consumer_tag"), bits(<<"nowait">>)>>,
   cancel_ok |-> <<shortstr("consumer_tag")>>,
   publish |-> <<short("ticket"), shortstr("exchange"),
                 shortstr("routing_key"), bits(<<"mandatory", "immediate">>)>>,
   return |-> <<short("reply_code"), shortstr("reply_text"),
                shortstr("exchange"), shortstr("routing_key")>>,
   deliver |-> <<shortstr("consumer_tag"), longlong("delivery_tag"),
                 bits(<<"redelivered">>), shortstr("exchange"),
                 shortstr("routing_key")>>,
   get |-> <<short("ticket"), shortstr("queue"), bits(<<"no_ack">>)>>,
   get_ok |-> <<longlong("delivery_tag"), bits(<<"redelivered">>),
                shortstr("exchange"), shortstr("routing_key"),
                long("message_count")>>,
   get_empty |-> <<shortstr("cluster_id")>>,
   ack |-> <<longlong("delivery_tag"), bits(<<"multiple">>)>>,
   reject |-> <<longlong("delivery_tag"), bits(<<"requeue">>)>>,
   recover_async |-> <<bits(<<"requeue">>)>>,
   recover |-> <<bits(<<"requeue">>)>>, recover_ok |-> <<>>]

FileEncoder ==
  [qos |-> <<long("prefetch_size"), short("prefetch_count"),
             bits(<<"global">>)>>, qos_ok |-> <<>>,
   consume |-> <<short("ticket"), shortstr("queue"), shortstr("consumer_tag"),
                 bits(<<"no_local", "no_ack", "exclusive", "nowait">>)>>,
   consume_ok |-> <<shortstr("consumer_tag")>>,
   cancel |-> <<shortstr("consumer_tag"), bits(<<"nowait">>)>>,
   cancel_ok |-> <<shortstr("consumer_tag")>>,
   open |-> <<shortstr("identifier"), longlong("content_size")>>,
   open_ok |-> <<longlong("staged_size")>>, stage |-> <<>>,
   publish |-> <<short("ticket"), shortstr("exchange"),
                 shortstr("routing_key"), bits(<<"mandatory", "immediate">>),
                 shortstr("identifier")>>,
   return |-> <<short("reply_code"), shortstr("reply_text"),
                shortstr("exchange"), shortstr("routing_key")>>,
   deliver |-> <<shortstr("consumer_tag"), longlong("delivery_tag"),
                 bits(<<"redelivered">>), shortstr("exchange"),
                 shortstr("routing_key"), shortstr("identifier")>>,
   ack |-> <<longlong("delivery_tag"), bits(<<"multiple">>)>>,
   reject |-> <<longlong("delivery_tag"), bits(<<"requeue">>)>>]

StreamEncoder ==
  [qos |-> <<long("prefetch_size"), short("prefetch_count"),
             long("consume_rate"), bits(<<"global">>)>>, qos_ok |-> <<>>,
   consume |-> <<short("ticket"), shortstr("queue"), shortstr("consumer_tag"),
                 bits(<<"no_local", "exclusive", "nowait">>)>>,
   consume_ok |-> <<shortstr("consumer_tag")>>,
   cancel |-> <<shortstr("consumer_tag"), bits(<<"nowait">>)>>,
   cancel_ok |-> <<shortstr("consumer_tag")>>,
   publish |-> <<short("ticket"), shortstr("exchange"),
                 shortstr("routing_key"), bits(<<"mandatory", "immediate">>)>>,
   return |-> <<short("reply_code"), shortstr("reply_text"),
                shortstr("exchange"), shortstr("routing_key")>>,
   deliver |-> <<shortstr("consumer_tag"), longlong("delivery_tag"),
                 shortstr("exchange"), shortstr("queue")>>]

TxEncoder ==
  [select |-> <<>>, select_ok |-> <<>>, commit |-> <<>>, commit_ok |-> <<>>,
   rollback |-> <<>>, rollback_ok |-> <<>>]

DtxEncoder ==
  [select |-> <<>>, select_ok |-> <<>>,
   start |-> <<shortstr("dtx_identifier")>>, start_ok |-> <<>>]

TunnelEncoder ==
  [request |-> <<table("meta_data")>>]

TestEncoder ==
  [integer |-> <<octet("integer_1"), short("integer_2"), long("integer_3"),
                 longlong("integer_4"), octet("operation")>>,
   integer_ok |-> <<longlong("result")>>,
   string |-> <<shortstr("string_1"), longstr("string_2"),
                octet("operation")>>, string_ok |-> <<longstr("result")>>,
   table |-> <<table("table"), octet("integer_op"), octet("string_op")>>,
   table_ok |-> <<longlong("integer_result"), longstr("string_result")>>,
   content |-> <<>>, content_ok |-> <<long("content_checksum")>>]

MethodEncoder ==
  [connection |-> ConnectionEncoder,
   channel |-> ChannelEncoder,
   access |-> AccessEncoder,
   exchange |-> ExchangeEncoder,
   queue |-> QueueEncoder,
   basic |-> BasicEncoder,
   file |-> FileEncoder,
   stream |-> StreamEncoder,
   tx |-> TxEncoder,
   dtx |-> DtxEncoder,
   tunnel |-> TunnelEncoder,
   test |-> TestEncoder]

-----------------------------------------------------------------------------
(* amqp_decode_properties and amqp_encode_properties.  The properties of   *)
(* the other classes have no fields, only flags.  Field i of a class has   *)
(* the flag 2^(16-i): no class has a flag above bit 15 or below bit 2.     *)

BasicPropertiesDecoder ==
  <<shortstr("content_type"), shortstr("content_encoding"), table("headers"),
    octet("delivery_mode"), octet("priority"), shortstr("correlation_id"),
    shortstr("reply_to"), shortstr("expiration"), shortstr("message_id"),
    longlong("timestamp"), shortstr("type"), shortstr("user_id"),
    shortstr("app_id"), shortstr("cluster_id")>>

FilePropertiesDecoder ==
  <<shortstr("content_type"), shortstr("content_encoding"), table("headers"),
    octet("priority"), shortstr("reply_to"), shortstr("message_id"),
    shortstr("filename"), longlong("timestamp"), shortstr("cluster_id")>>

StreamPropertiesDecoder ==
  <<shortstr("content_type"), shortstr("content_encoding"), table("headers"),
    octet("priority"), longlong("timestamp")>>

TunnelPropertiesDecoder ==
  <<table("headers"), shortstr("proxy_name"), shortstr("data_name"),
    octet("durable"), octet("broadcast")>>

BasicPropertiesEncoder ==
  <<shortstr("content_type"), shortstr("content_encoding"), table("headers"),
    octet("delivery_mode"), octet("priority"), shortstr("correlation_id"),
    shortstr("reply_to"), shortstr("expiration"), shortstr("message_id"),
    longlong("timestamp"), shortstr("type"), shortstr("user_id"),
    shortstr("app_id"), shortstr("cluster_id")>>

FilePropertiesEncoder ==
  <<shortstr("content_type"), shortstr("content_encoding"), table("headers"),
    octet("priority"), shortstr("reply_to"), shortstr("message_id"),
    shortstr("filename"), longlong("timestamp"), shortstr("cluster_id")>>

StreamPropertiesEncoder ==
  <<shortstr("content_type"), shortstr("content_encoding"), table("headers"),
    octet("priority"), longlong("timestamp")>>

TunnelPropertiesEncoder ==
  <<table("headers"), shortstr("proxy_name"), shortstr("data_name"),
    octet("durable"), octet("broadcast")>>

PropertiesDecoder ==
  [basic |-> BasicPropertiesDecoder,
   file |-> FilePropertiesDecoder,
   stream |-> StreamPropertiesDecoder,
   tunnel |-> TunnelPropertiesDecoder,
   connection |-> <<>>, channel |-> <<>>, access |-> <<>>, exchange |-> <<>>,
   queue |-> <<>>, tx |-> <<>>, dtx |-> <<>>, test |-> <<>>]

PropertiesEncoder ==
  [basic |-> BasicPropertiesEncoder,
   file |-> FilePropertiesEncoder,
   stream |-> StreamPropertiesEncoder,
   tunnel |-> TunnelPropertiesEncoder,
   connection |-> <<>>, channel |-> <<>>, access |-> <<>>, exchange |-> <<>>,
   queue |-> <<>>, tx |-> <<>>, dtx |-> <<>>, test |-> <<>>]

(* The flag of field i.                                                    *)
PropertyFlag(i) == 2 ^ (16 - i)
=============================================================================
