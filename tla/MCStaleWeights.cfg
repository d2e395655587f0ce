SPECIFICATION WeightsSpec
CONSTANTS
    TeLinears = {"q", "k"}
    DitLinears = {"x_embedder"}
    Addresses = {1, 2, 3}
    ra = ra
    rb = rb
    Renderers <- MCRenderers
    Hosts <- StaleHosts
    GpuFaults = {"upload"}
    Free = Free
INVARIANT ProductsUseTheirWeights
